---- MODULE Spec2Model ----
(***************************************************************************)
(* The persona scraper: one HTTP handler that validates the request,       *)
(* seeds a transcript with pre-fetched evidence and drives the Grok        *)
(* tool-calling loop.  The repository holds six revisions of index.ts;     *)
(* the variable rev names the revision a behaviour runs.                   *)
(*                                                                         *)
(*   index1    src/index.ts            lines   1-271                       *)
(*   index2    src/index.ts            lines 272-733                       *)
(*   docker    src/Dockerfile          lines  21-280                       *)
(*   part002a  src/unnamed/part_002    lines   1-617                       *)
(*   part002b  src/unnamed/part_002    lines 619-1146                      *)
(*   part003   src/unnamed/part_003    lines   1-443                       *)
(*                                                                         *)
(* Spec is the handler with its loop; SpecSeed runs the seeding call by    *)
(* call; SpecValidator, SpecDedupe and SpecUrl apply the helpers to        *)
(* bounded inputs; SpecOutbound follows one executor from its entry        *)
(* through one outbound call, while the client may go away; SpecSocial,    *)
(* SpecBrowse and SpecSearch run the x_keyword_search, browse_page and     *)
(* web_search executors on bounded inputs.                                 *)
(***************************************************************************)
EXTENDS Integers, Sequences, FiniteSets, TLC

VARIABLES rev, req, pc, messages, i, k, content, resp, invocations, ranTurn, last,
          arg, ret, seedX, seedWeb, webQueries, net, attempts, client

\* the locals of the helpers, of the seeding and of the executors; the handler
\* steps of Spec leave them alone
aux == <<arg, ret, seedX, seedWeb, webQueries, net, attempts, client>>

vars == <<rev, req, pc, messages, i, k, content, resp, invocations, ranTurn, last, aux>>

(***************************************************************************)
(* Bounds of the model.                                                    *)
(***************************************************************************)
\* most tool calls one model response carries
MaxCalls == 2
\* distinct call identifiers the model draws from
MaxIds == 2
\* the model gives one unrestricted answer per request, in one of the first
\* FreeWindow turns; its other answers are those of LateReplies
FreeWindow == 1
\* most deduplicated seed web results
MaxSeedItems == 1

(***************************************************************************)
(* The revisions and what differs between their handlers.                  *)
(***************************************************************************)
Revisions == {"index1", "index2", "docker", "part002a", "part002b", "part003"}

\* for (let i = 0; i < N; i++)
MaxTurns(r) ==
  CASE r \in {"index1", "docker"} -> 20
    [] r = "part002a" -> 15
    [] OTHER -> 12

\* the names the dispatch chain of the loop compares against
KnownTools(r) ==
  IF r \in {"part002a", "part002b"}
  THEN {"web_search", "x_keyword_search", "browse_page"}
  ELSE {"web_search", "x_keyword_search"}

\* the dispatch chain ends in  else { result = { error: "Unknown tool" } }
HasUnknownBranch(r) == r \notin {"index1", "docker"}

CatchesBrowseEverywhere(r) == r \in {"part002a", "part002b"}

\* browse_page is dispatched inside try/catch
CatchesBrowse(r) == r = "part002b"

\* the revision seeds the transcript before the loop
HasSeeding(r) == r \notin {"index1", "docker"}

\* seeding pre-browses up to PreBrowseCap pages
HasPreBrowse(r) == r = "part002a"

\* the body is read as text and parsed inside try/catch
GuardsBodyParse(r) == r \in {"part002a", "part002b"}

\* the final content is parsed with the extractFirstJson fallback
HasJsonFallback(r) == r \notin {"index1", "docker"}

PreBrowseCap == 5

Min(a, b) == IF a < b THEN a ELSE b

(***************************************************************************)
(* Messages of the transcript.  An identifier is a pair <<kind, n>>.       *)
(***************************************************************************)
CallIds == {<<"call", n>> : n \in 1..MaxIds}

ToolNames == {"web_search", "x_keyword_search", "browse_page", "other_tool"}

\* toolCall.function.arguments: a string that JSON.parse accepts, or not
ArgKinds == {"json", "malformed"}

ToolCalls == [id : CallIds, name : ToolNames, arguments : ArgKinds]

\* the tool_calls lists of a response; identifiers are opaque, so the n-th call
\* of a list draws its identifier from the first n
CallSeqs ==
  UNION {{cs \in [1..n -> ToolCalls] : \A j \in 1..n : cs[j].id[2] <= j} : n \in 0..MaxCalls}

\* message.content of an assistant message: "" stands for null or the empty
\* string (both falsy); "json" parses directly; "wrapped" is prose around one
\* JSON object; "broken" has a first '{' before a last '}' but nothing
\* parseable between them; "prose" has no such pair
ContentKinds == {"", "json", "wrapped", "broken", "prose"}

Msg(role, id, has, calls, c) ==
  [role |-> role, tool_call_id |-> id, has_tool_calls |-> has,
   tool_calls |-> calls, content |-> c]

NoId == <<"", 0>>

SystemMsg == Msg("system", NoId, FALSE, <<>>, "systemPrompt")
UserMsg == Msg("user", NoId, FALSE, <<>>, "directive")

ToolMsgFixedId(call, result) == Msg("tool", <<"call", 1>>, FALSE, <<>>, result)

\* messages.push({ role: "tool", tool_call_id: toolCall.id, content: JSON.stringify(result) })
ToolMsg(call, result) == Msg("tool", call.id, FALSE, <<>>, result)

SeedMsg(kind, n, c) == Msg("tool", <<kind, n>>, FALSE, <<>>, c)

\* data.choices[0].message, pushed as it came
AssistantMsg(r) == Msg("assistant", NoId, r.has_tool_calls, r.tool_calls, r.content)

(***************************************************************************)
(* The request and the response.                                           *)
(***************************************************************************)
\* linkedin_url: missing or empty ("none"), whitespace only ("blank"), a URL
\* with an /in/<slug> path, or any other text
LinkedInKinds == {"none", "blank", "slug", "noslug"}
\* x_url: missing or empty, whitespace only, a URL on an X host with a path,
\* or any other text
XKinds == {"none", "blank", "handle", "nohandle"}

\* body: text that parses to an object, the text  null  (parses, but has no
\* properties to read), or text that JSON.parse rejects
BodyKinds == {"json", "null", "unparseable"}

Requests ==
  {q \in [method : {"POST", "GET"}, body : BodyKinds,
          linkedin_url : LinkedInKinds, x_url : XKinds, xaiKey : BOOLEAN] :
     q.body = "null" => q.linkedin_url = "none" /\ q.x_url = "none"}

\* format: "json" for a JSON body, "text" for a plain-text one; debug: the
\* value of debug.seeded_x_handle, "absent" where the body has no debug
NoResp == [status |-> 0, error |-> "", persona |-> "", format |-> "", debug |-> ""]
Fail(status, error) ==
  [status |-> status, error |-> error, persona |-> "", format |-> "json", debug |-> ""]
Ok200(persona, debug) ==
  [status |-> 200, error |-> "", persona |-> persona, format |-> "json", debug |-> debug]

\* errors are answered through the helper  json(status, body)
UsesJsonHelper(r) == r \in {"part002a", "part002b", "part003"}

\* new Response("Method Not Allowed ...", { status: 405 })  or  json(405, { error })
MethodNotAllowed(r) ==
  IF UsesJsonHelper(r) THEN Fail(405, "Method Not Allowed")
  ELSE [Fail(405, "") EXCEPT !.format = "text"]

\* body.linkedin_url?.trim() || null: whitespace trims to the empty string
Trimmed(u) == IF u = "blank" THEN "none" ELSE u

\* extractXUsername(xUrl) # null
HasXHandle(q) == q.x_url = "handle"
\* extractLinkedInSlug(linkedinUrl) # null
HasLiSlug(q) == q.linkedin_url = "slug"

(***************************************************************************)
(* After the loop: if (!content) throw; JSON.parse with fallback; respond. *)
(***************************************************************************)
SeededXHandleFromSlug(r, q) ==
  IF ~HasSeeding(r) THEN "absent"
  ELSE IF HasLiSlug(q) THEN "handle"
  ELSE "null"

\* debug.seeded_x_handle of the 200 body: extractXUsername(xUrl), or no debug
\* object in the revisions that answer with the bare persona
SeededXHandle(r, q) ==
  IF ~HasSeeding(r) THEN "absent"
  ELSE IF HasXHandle(q) THEN "handle"
  ELSE "null"

Conclude(r, q, c) ==
  IF c = "" THEN Fail(500, "No final content")
  ELSE IF c = "json" THEN Ok200("json", SeededXHandle(r, q))
  ELSE IF ~HasJsonFallback(r) THEN Fail(500, "SyntaxError")
  ELSE IF c = "wrapped" THEN Ok200("wrapped", SeededXHandle(r, q))
  ELSE IF c = "broken" THEN Fail(500, "SyntaxError")
  ELSE Fail(500, "Model did not return JSON")

Event(kind, idx) == [kind |-> kind, idx |-> idx]

Init ==
  /\ rev \in Revisions
  /\ req \in Requests
  /\ pc = "start"
  /\ messages = <<>>
  /\ i = 0
  /\ k = 0
  /\ content = ""
  /\ resp = NoResp
  /\ invocations = 0
  /\ ranTurn = <<>>
  /\ last = Event("init", 0)
  /\ arg = <<>>
  /\ ret = <<>>
  /\ seedX = <<>>
  /\ seedWeb = <<>>
  /\ webQueries = <<>>
  /\ net = "idle"
  /\ attempts = 0
  /\ client = "connected"

(***************************************************************************)
(* Receive: method, body, URL and credential checks up to the seeding.     *)
(***************************************************************************)
Reject(r, e) ==
  /\ pc' = "done"
  /\ resp' = r
  /\ last' = Event(e, 0)
  /\ UNCHANGED <<aux, rev, req, messages, i, k, content, invocations, ranTurn>>

MissingKeyIgnored(q) == FALSE

\* if (!xaiKey) return ...: checked before the tools are declared
MissingKeyStops(q) == ~q.xaiKey

\* from the accepted request on, req.linkedin_url and req.x_url stand for the
\* locals linkedinUrl and xUrl, the trimmed values
Receive ==
  /\ pc = "start"
  /\ IF req.method # "POST" THEN Reject(MethodNotAllowed(rev), "reject")
     ELSE IF req.body = "unparseable"
       THEN IF GuardsBodyParse(rev)
            THEN Reject(Fail(400, "Body was not valid JSON"), "reject")
            ELSE Reject(Fail(500, "SyntaxError"), "reject")
     ELSE IF req.body = "null"
       \* body.linkedin_url on null throws a TypeError, caught by the outer catch
       THEN Reject(Fail(500, "TypeError"), "reject")
     ELSE IF Trimmed(req.linkedin_url) = "none" /\ Trimmed(req.x_url) = "none"
       THEN Reject(Fail(400, "Provide linkedin_url and/or x_url"), "reject")
     ELSE IF MissingKeyStops(req)
       THEN Reject(Fail(500, "Missing XAI_API_KEY"), "reject")
     ELSE /\ pc' = IF HasSeeding(rev) THEN "seed" ELSE "model"
          /\ messages' = IF HasSeeding(rev) THEN <<>> ELSE <<SystemMsg, UserMsg>>
          /\ req' = [req EXCEPT !.linkedin_url = Trimmed(@), !.x_url = Trimmed(@)]
          /\ last' = Event("accepted", 0)
          /\ UNCHANGED <<aux, rev, i, k, content, resp, invocations, ranTurn>>

(***************************************************************************)
(* Seed: the X timeline pre-fetch, the web queries, dedupeByLink and (in   *)
(* part002a) the guarded pre-browses, then the initial transcript.         *)
(***************************************************************************)
\* the synthetic tool messages spread into the initial transcript
SeedMessages(nw, nx, browse) ==
  (IF nw > 0 THEN <<SeedMsg("seed_web_search", 0, "web_results")>> ELSE <<>>)
  \o (IF nx > 0 THEN <<SeedMsg("seed_x_search", 0, "x_posts")>> ELSE <<>>)
  \o [j \in 1..Len(browse) |-> SeedMsg("seed_browse", j - 1, browse[j])]

\* uniquePreBrowse: linkedinUrl first, then matching seed links, cut to 5
PreBrowseCounts(q, r, nw) ==
  IF ~HasPreBrowse(r) THEN {0}
  ELSE IF q.linkedin_url = "none" THEN {0}
  ELSE 1..Min(PreBrowseCap, 1 + nw)

Seed ==
  /\ pc = "seed"
  /\ \E xThrows \in BOOLEAN, wThrows \in BOOLEAN, nx \in 0..1, nw \in 0..MaxSeedItems :
       \* executeXKeywordSearch runs only for a handle, executeWebSearch only
       \* for a LinkedIn URL; an absent call neither throws nor returns items
       /\ HasXHandle(req) \/ (~xThrows /\ nx = 0)
       /\ req.linkedin_url # "none" \/ (~wThrows /\ nw = 0)
       /\ IF xThrows \/ wThrows
          THEN Reject(Fail(500, "ExecutorError"), "seed_error")
          ELSE \E nb \in PreBrowseCounts(req, rev, nw) :
               \E browse \in [1..nb -> {"page_text", "browse_error"}] :
                 /\ messages' = <<SystemMsg, UserMsg>> \o SeedMessages(nw, nx, browse)
                 /\ pc' = "model"
                 /\ last' = Event("seeded", 0)
                 /\ UNCHANGED <<aux, rev, req, i, k, content, resp, invocations, ranTurn>>

(***************************************************************************)
(* What the model may answer.                                              *)
(***************************************************************************)
Reply(ok, parses, has, calls, c) ==
  [ok |-> ok, parses |-> parses, has_tool_calls |-> has, tool_calls |-> calls,
   content |-> c]

\* a non-success status, and a success whose body is not the expected JSON
ErrorReplies == {Reply(FALSE, TRUE, FALSE, <<>>, ""), Reply(TRUE, FALSE, FALSE, <<>>, "")}

\* no tool_calls field
FinalReplies == {Reply(TRUE, TRUE, FALSE, <<>>, c) : c \in ContentKinds}

DefaultCall == [id |-> <<"call", 1>>, name |-> "web_search", arguments |-> "json"]

\* message.content of an assistant message that also carries tool calls
ToolTurnContent == "json"

FreeReplies ==
  ErrorReplies \cup FinalReplies
    \cup {Reply(TRUE, TRUE, TRUE, cs, ToolTurnContent) : cs \in CallSeqs}

DefaultReply == Reply(TRUE, TRUE, TRUE, <<DefaultCall>>, "")

LateReplies ==
  {Reply(FALSE, TRUE, FALSE, <<>>, ""),
   Reply(TRUE, TRUE, FALSE, <<>>, ""),
   Reply(TRUE, TRUE, FALSE, <<>>, "json"),
   DefaultReply}

\* the request for which the unrestricted answer is explored: the X URL alone
Focus(q) == q.linkedin_url = "none" /\ q.x_url = "handle"

IsAssistant(m) == m.role = "assistant"

AssistantIdxs(ms) == {j \in 1..Len(ms) : IsAssistant(ms[j])}

\* the model has not given its unrestricted answer yet
OnlyDefaultsSoFar(ms) == \A a \in AssistantIdxs(ms) : ms[a] = AssistantMsg(DefaultReply)

Replies(turn, q, ms) ==
  IF turn < FreeWindow /\ Focus(q) /\ OnlyDefaultsSoFar(ms)
  THEN FreeReplies
  ELSE LateReplies

(***************************************************************************)
(* The Grok loop.                                                          *)
(***************************************************************************)
\* position of the latest assistant message among the first j, 0 if none
RECURSIVE LastAssistantUpTo(_, _)
LastAssistantUpTo(ms, j) ==
  IF j = 0 THEN 0
  ELSE IF IsAssistant(ms[j]) THEN j
  ELSE LastAssistantUpTo(ms, j - 1)

\* position of the first assistant message at or after j, Len + 1 if none
RECURSIVE NextAssistantFrom(_, _)
NextAssistantFrom(ms, j) ==
  IF j > Len(ms) THEN j
  ELSE IF IsAssistant(ms[j]) THEN j
  ELSE NextAssistantFrom(ms, j + 1)

\* the local  message  of the current iteration
CurMessage == messages[LastAssistantUpTo(messages, Len(messages))]

\* if (message.tool_calls): an array, even an empty one, is truthy
TakesToolBranch(m) == m.has_tool_calls

LoopTestLoose(r, n) == n <= MaxTurns(r)

\* the loop test  i < N
LoopTest(r, n) == n < MaxTurns(r)

\* i++ and the loop test; past the budget the code after the loop runs
NextTurn ==
  /\ i' = i + 1
  /\ k' = 0
  /\ IF LoopTest(rev, i + 1)
     THEN pc' = "model" /\ resp' = resp
     ELSE pc' = "done" /\ resp' = Conclude(rev, req, content)

\* throw inside the handler: caught by the outer catch, answered 500
Abort(error, event) ==
  /\ pc' = "done"
  /\ resp' = Fail(500, error)
  /\ last' = event
  /\ UNCHANGED <<aux, rev, req, messages, i, k, content>>

OnModelErrorRetry ==
  /\ last' = Event("model_error", 0)
  /\ UNCHANGED <<aux, rev, req, pc, messages, i, k, content, resp, ranTurn>>

\* if (!response.ok) throw new Error(...)
OnModelError ==
  /\ Abort("xAI error", Event("model_error", 0))
  /\ UNCHANGED ranTurn

ContentOfAny(c, m) == m.content

\* content = message.content  is assigned in the else branch only
ContentAfter(c, m) == IF TakesToolBranch(m) THEN c ELSE m.content

InvokeModel ==
  /\ pc = "model"
  /\ LoopTest(rev, i)
  /\ invocations' = invocations + 1
  /\ \E r \in Replies(i, req, messages) :
       IF ~r.ok THEN OnModelError
       ELSE IF ~r.parses
         THEN Abort("SyntaxError", Event("model_garbage", 0)) /\ UNCHANGED ranTurn
       ELSE
         /\ messages' = Append(messages, AssistantMsg(r))
         /\ ranTurn' = <<>>
         /\ UNCHANGED <<aux, rev, req>>
         /\ content' = ContentAfter(content, AssistantMsg(r))
         /\ IF TakesToolBranch(AssistantMsg(r))
            THEN /\ IF Len(r.tool_calls) = 0
                    THEN NextTurn /\ last' = Event("empty_turn", 0)
                    ELSE /\ pc' = "tools"
                         /\ k' = 1
                         /\ last' = Event("assistant", 0)
                         /\ UNCHANGED <<i, resp>>
            ELSE /\ pc' = "done"
                 /\ resp' = Conclude(rev, req, r.content)
                 /\ last' = Event("final", 0)
                 /\ UNCHANGED <<i, k>>

\* what the executor of a known tool returns
ResultOf(name) ==
  CASE name = "web_search" -> "web_results"
    [] name = "x_keyword_search" -> "x_posts"
    [] OTHER -> "page_text"

\* the value left in  result  when no branch of the dispatch chain matches
UnknownResult(r) == IF HasUnknownBranch(r) THEN "unknown_tool_error" ELSE "undefined"

CurCallReversed == CurMessage.tool_calls[Len(CurMessage.tool_calls) - k + 1]

\* for (const toolCall of message.tool_calls): the call of this iteration
CurCall == CurMessage.tool_calls[k]

PushResultSkipLast(call, result, event) ==
  /\ messages' = Append(messages, ToolMsg(call, result))
  /\ last' = Event(event, k)
  /\ UNCHANGED <<aux, rev, req, content>>
  /\ IF k + 1 < Len(CurMessage.tool_calls)
     THEN k' = k + 1 /\ UNCHANGED <<i, pc, resp>>
     ELSE NextTurn

\* messages.push(tool message) and on to the next call or the next turn
PushResult(call, result, event) ==
  /\ messages' = Append(messages, ToolMsg(call, result))
  /\ last' = Event(event, k)
  /\ UNCHANGED <<aux, rev, req, content>>
  /\ IF k < Len(CurMessage.tool_calls)
     THEN k' = k + 1 /\ UNCHANGED <<i, pc, resp>>
     ELSE NextTurn

\* an executor threw
OnExecutorError(call) ==
  IF call.name = "browse_page" /\ CatchesBrowse(rev)
  THEN PushResult(call, "exec_error", "tool_caught")
  ELSE Abort("ExecutorError", Event("exec_error", k))

\* the executors that call fetchWithTimeout: executeBrowsePage and the PDF
\* worker behind it
CanTimeOut(r, name) == name = "browse_page" /\ name \in KnownTools(r)

\* controller.abort() fired: the fetch rejects and the executor throws (after
\* the retries of the page fetch, at once for the PDF worker)
OnTimeout(call) ==
  IF CatchesBrowse(rev)
  THEN PushResult(call, "timeout_error", "timeout_caught")
  ELSE Abort("ExecutorError", Event("exec_timeout", k))

OnArgsErrorInBand(call) ==
  /\ ranTurn' = ranTurn
  /\ PushResult(call, "args_error", "tool_caught")

\* const args = JSON.parse(toolCall.function.arguments) threw
OnArgsError(call) ==
  /\ Abort("SyntaxError", Event("args_error", k))
  /\ UNCHANGED ranTurn

ExecToolCall ==
  /\ pc = "tools"
  /\ UNCHANGED invocations
  /\ LET call == CurCall IN
       IF call.arguments = "malformed"
       THEN OnArgsError(call)
       ELSE IF call.name \in KnownTools(rev)
       THEN /\ ranTurn' = Append(ranTurn, k)
            /\ \/ PushResult(call, ResultOf(call.name), "tool_ok")
               \/ OnExecutorError(call)
               \/ CanTimeOut(rev, call.name) /\ OnTimeout(call)
       ELSE /\ ranTurn' = ranTurn
            /\ PushResult(call, UnknownResult(rev), "tool_unknown")

Next == Receive \/ Seed \/ InvokeModel \/ ExecToolCall

Spec == Init /\ [][Next]_vars

(***************************************************************************)
(* Reading the transcript turn by turn.                                    *)
(***************************************************************************)
Assistants == AssistantIdxs(messages)

\* index of the assistant message after a, or one past the end
TurnEnd(a) == NextAssistantFrom(messages, a + 1)

\* index of the latest assistant message
LastTurn == LastAssistantUpTo(messages, Len(messages))

\* positions of the messages that follow assistant message a within its turn
TurnRange(a) == (a + 1)..(TurnEnd(a) - 1)

CallIdsOf(m) == {m.tool_calls[n].id : n \in 1..Len(m.tool_calls)}

\* the handler ended by a throw in the middle of a turn or of a model call
FailureEvents ==
  {"model_error", "model_garbage", "args_error", "exec_error", "exec_timeout"}

\* the turn of assistant message a ran to its end
TurnComplete(a) ==
  /\ TakesToolBranch(messages[a])
  /\ \/ TurnEnd(a) <= Len(messages)
     \/ pc = "model"
     \/ pc = "done" /\ last.kind \notin FailureEvents

\* every model response so far requested at least one tool call
AlwaysCalls ==
  \A a \in Assistants : messages[a].has_tool_calls /\ Len(messages[a].tool_calls) >= 1

(***************************************************************************)
(* C1. Turn budget: when every model response requests at least one tool   *)
(* call and neither a model call, an argument parse nor an executor fails, *)
(* the loop never makes more model invocations than the budget of its      *)
(* revision, and it ends only after exactly that many, in failure with     *)
(* 'No final content'.                                                     *)
(***************************************************************************)
C1_TurnBudget ==
  (invocations >= 1 /\ AlwaysCalls /\ last.kind \notin FailureEvents) =>
    /\ invocations <=
         (CASE rev \in {"index1", "docker"} -> 20 [] rev = "part002a" -> 15 [] OTHER -> 12)
    /\ pc = "done" =>
         /\ invocations =
              (CASE rev \in {"index1", "docker"} -> 20 [] rev = "part002a" -> 15 [] OTHER -> 12)
         /\ resp = Fail(500, "No final content")
         /\ Cardinality(Assistants) = invocations

C1_Witness ==
  /\ rev = "part003"
  /\ pc = "done"
  /\ invocations = 12
  /\ AlwaysCalls
  /\ Cardinality(Assistants) = 12
  /\ resp.error = "No final content"

(***************************************************************************)
(* C2. Tagging: after every completed tool-call turn, the set of           *)
(* tool_call_id values of the tool messages appended in that turn equals   *)
(* the set of ids of the tool calls of the turn's assistant message.       *)
(***************************************************************************)
C2_Tagging ==
  \A a \in Assistants :
    TurnComplete(a) =>
      /\ \A j \in TurnRange(a) : messages[j].role = "tool"
      /\ {messages[j].tool_call_id : j \in TurnRange(a)} = CallIdsOf(messages[a])

C2_Witness ==
  \E a \in Assistants :
    /\ TurnComplete(a)
    /\ Len(messages[a].tool_calls) = 2
    /\ Cardinality(CallIdsOf(messages[a])) = 2
    /\ messages[a].tool_calls[2].id = <<"call", 2>>
    /\ Cardinality(TurnRange(a)) = 2

(***************************************************************************)
(* C3. In every transcript passed to a model invocation, the seeded one    *)
(* included, every tool message carries an identifier emitted by the       *)
(* nearest preceding assistant message.                                    *)
(***************************************************************************)
C3_ToolIdsFromAssistant ==
  pc = "model" =>
    \A j \in 1..Len(messages) :
      messages[j].role = "tool" =>
        /\ LastAssistantUpTo(messages, j) > 0
        /\ messages[j].tool_call_id
             \in CallIdsOf(messages[LastAssistantUpTo(messages, j)])

(***************************************************************************)
(* C4. When the model is invoked again after an assistant message that     *)
(* requested N tool calls, exactly N tool messages lie between that        *)
(* assistant message and the next assistant message (or the end of the     *)
(* transcript being sent).                                                 *)
(***************************************************************************)
C4_OneResultPerCall ==
  \A a \in Assistants :
    (TurnEnd(a) <= Len(messages) \/ pc = "model") =>
      /\ \A j \in TurnRange(a) : messages[j].role = "tool"
      /\ Cardinality(TurnRange(a)) = Len(messages[a].tool_calls)

C4_Witness ==
  /\ pc = "model"
  /\ \E a \in Assistants :
       /\ TurnEnd(a) > Len(messages)
       /\ Len(messages[a].tool_calls) = 2
       /\ Cardinality(TurnRange(a)) = 2
       /\ messages[a].tool_calls[1].id = messages[a].tool_calls[2].id

(***************************************************************************)
(* C5. A model response with zero tool-call requests (tool_calls absent or *)
(* an empty list) ends the loop with its content as the candidate answer:  *)
(* it is the last message, no model invocation and no tool run follows.    *)
(***************************************************************************)
C5_NoCallsEndsLoop ==
  \A a \in Assistants :
    Len(messages[a].tool_calls) = 0 =>
      /\ a = Len(messages)
      /\ pc = "done"
      /\ content = messages[a].content

(***************************************************************************)
(* C6. Within one assistant turn the tool calls are executed, and their    *)
(* tool messages appended, in the order the model listed them; the n-th    *)
(* message of the turn carries the id and the payload of the n-th call.    *)
(***************************************************************************)
PayloadsOf(name) ==
  CASE name = "web_search" -> {"web_results"}
    [] name = "x_keyword_search" -> {"x_posts"}
    [] name = "browse_page" ->
         {"page_text", "exec_error", "timeout_error", "unknown_tool_error", "undefined"}
    [] OTHER -> {"unknown_tool_error", "undefined"}

C6_ListedOrder ==
  /\ \A a \in Assistants :
       /\ Cardinality(TurnRange(a)) <= Len(messages[a].tool_calls)
       /\ \A j \in TurnRange(a) :
            /\ messages[j].role = "tool"
            /\ messages[j].tool_call_id = messages[a].tool_calls[j - a].id
            /\ messages[j].content \in PayloadsOf(messages[a].tool_calls[j - a].name)
  /\ \A n \in 1..Len(ranTurn) : \A m \in 1..Len(ranTurn) : n < m => ranTurn[n] < ranTurn[m]
  /\ pc = "tools" => \A n \in 1..Len(ranTurn) : ranTurn[n] < k

C6_Witness ==
  \E a \in Assistants :
    /\ Len(messages[a].tool_calls) = 2
    /\ Cardinality(TurnRange(a)) = 2
    /\ messages[a].tool_calls[1].name = "x_keyword_search"
    /\ messages[a].tool_calls[2].name = "web_search"
    /\ messages[a].tool_calls[1].id # messages[a].tool_calls[2].id
    /\ messages[a + 1].content = "x_posts"
    /\ ranTurn = <<1, 2>>

(***************************************************************************)
(* C7. A tool call naming a tool outside web_search, x_keyword_search and  *)
(* browse_page (its arguments parsing) is answered by a tool message that  *)
(* carries {error: "Unknown tool"} and the call's id, and the loop goes on.*)
(***************************************************************************)
C7_UnknownToolInBand ==
  \A a \in Assistants : \A j \in TurnRange(a) :
    (j - a <= Len(messages[a].tool_calls)
       /\ messages[a].tool_calls[j - a].name = "other_tool") =>
      /\ messages[j].content = "unknown_tool_error"
      /\ messages[j].tool_call_id = messages[a].tool_calls[j - a].id

(***************************************************************************)
(* C8. A model invocation that returns a non-success status ends the       *)
(* request at once with a 500: the transcript is left as it was sent, no   *)
(* executor runs, and no step of the handler follows the response.         *)
(***************************************************************************)
C8_ModelErrorAborts ==
  /\ [][last'.kind = "model_error" =>
          /\ pc' = "done"
          /\ resp' = Fail(500, "xAI error")
          /\ messages' = messages
          /\ ranTurn' = ranTurn
          /\ invocations' = invocations + 1]_vars
  /\ [][pc # "done"]_vars

C8_Witness ==
  /\ last.kind = "model_error"
  /\ pc = "done"
  /\ resp.status = 500
  /\ invocations = 2
  /\ Cardinality(Assistants) = 1

(***************************************************************************)
(* C9. Tool-call arguments that do not parse as JSON abort the request     *)
(* with a 500: the executor of that call is not run, no tool message is    *)
(* appended for it, and the remaining calls of the turn are not executed.  *)
(***************************************************************************)
C9_MalformedArgsAbort ==
  /\ \A a \in Assistants : \A j \in TurnRange(a) :
       j - a <= Len(messages[a].tool_calls) =>
         messages[a].tool_calls[j - a].arguments # "malformed"
  /\ \A a \in Assistants :
       (\E n \in 1..Len(messages[a].tool_calls) :
          messages[a].tool_calls[n].arguments = "malformed") =>
         /\ TurnEnd(a) > Len(messages)
         /\ pc \in {"tools", "done"}
         /\ pc = "done" => resp.status = 500
  /\ last.kind = "args_error" =>
       /\ pc = "done"
       /\ resp = Fail(500, "SyntaxError")
       /\ LET a == LastTurn IN
            /\ messages[a].tool_calls[last.idx].arguments = "malformed"
            /\ Cardinality(TurnRange(a)) = last.idx - 1
            /\ \A n \in 1..Len(ranTurn) : ranTurn[n] < last.idx

C9_Witness ==
  /\ last = Event("args_error", 1)
  /\ pc = "done"
  /\ Len(messages[LastTurn].tool_calls) = 2
  /\ messages[LastTurn].tool_calls[2].arguments = "json"
  /\ messages[LastTurn].tool_calls[1].name = "other_tool"
  /\ messages[Len(messages)].role = "assistant"

MaxText == 4

Chars == {"{", "}", "m", "1", "w"}

Texts == UNION {[1..n -> Chars] : n \in 0..MaxText}

NoValue == [ok |-> FALSE, depth |-> 0, leaf |-> "none"]

\* the value JSON.parse returns for an object nested depth deep
RECURSIVE ParseObject(_, _)
ParseObject(t, depth) ==
  IF Len(t) < 2 \/ t[1] # "{" \/ t[Len(t)] # "}" THEN NoValue
  ELSE LET inner == SubSeq(t, 2, Len(t) - 1) IN
       IF inner = <<>> THEN [ok |-> TRUE, depth |-> depth + 1, leaf |-> "none"]
       ELSE IF inner = <<"m">> THEN [ok |-> TRUE, depth |-> depth + 1, leaf |-> "m"]
       ELSE ParseObject(inner, depth + 1)

\* JSON.parse(text); a result that is not ok stands for the SyntaxError thrown
JsonParse(t) ==
  IF t = <<"1">> THEN [ok |-> TRUE, depth |-> 0, leaf |-> "1"]
  ELSE ParseObject(t, 0)

\* text.indexOf(c, from), 0-based, -1 when absent
RECURSIVE indexOf(_, _, _)
indexOf(t, c, from) ==
  IF from >= Len(t) THEN -1
  ELSE IF t[from + 1] = c THEN from
  ELSE indexOf(t, c, from + 1)

\* text.lastIndexOf(c, from), 0-based, -1 when absent
RECURSIVE lastIndexOf(_, _, _)
lastIndexOf(t, c, from) ==
  IF from < 0 THEN -1
  ELSE IF t[from + 1] = c THEN from
  ELSE lastIndexOf(t, c, from - 1)

\* text.slice(start, end), 0-based, end exclusive
slice(t, start, end) == SubSeq(t, start + 1, end)

NoText == <<"null">>

\* indexOf, lastIndexOf, the null test and slice(start, end + 1)
extractFirstJson(text) ==
  LET start == indexOf(text, "{", 0)
      end == lastIndexOf(text, "}", Len(text) - 1)
  IN IF start = -1 \/ end = -1 \/ end <= start THEN NoText
     ELSE slice(text, start, end + 1)

Answer(status, error, persona) == [status |-> status, error |-> error, persona |-> persona]

\* if (!content) throw; try { JSON.parse(content) } catch { extractFirstJson,
\* throw when it is null, JSON.parse(extracted) }; the first revision and the
\* Dockerfile copy parse the content with no catch
ConcludeText(r, c) ==
  IF c = <<>> THEN Answer(500, "No final content", NoValue)
  ELSE IF JsonParse(c).ok THEN Answer(200, "", JsonParse(c))
  ELSE IF ~HasJsonFallback(r) THEN Answer(500, "SyntaxError", NoValue)
  ELSE LET extracted == extractFirstJson(c) IN
       IF extracted = NoText THEN Answer(500, "Model did not return JSON", NoValue)
       ELSE IF JsonParse(extracted).ok THEN Answer(200, "", JsonParse(extracted))
       ELSE Answer(500, "SyntaxError", NoValue)

\* everything the pure-function specifications leave at its initial value
Idle ==
  /\ req = [method |-> "POST", body |-> "json", linkedin_url |-> "none",
            x_url |-> "none", xaiKey |-> TRUE]
  /\ messages = <<>>
  /\ i = 0
  /\ k = 0
  /\ content = ""
  /\ resp = NoResp
  /\ invocations = 0
  /\ ranTurn = <<>>
  /\ last = Event("init", 0)
  /\ seedX = <<>>
  /\ seedWeb = <<>>
  /\ webQueries = <<>>
  /\ net = "idle"
  /\ attempts = 0
  /\ client = "connected"

IdleVars ==
  <<req, messages, i, k, content, resp, invocations, ranTurn, last,
    seedX, seedWeb, webQueries, net, attempts, client>>

InitValidator ==
  /\ Idle
  /\ rev \in Revisions
  /\ pc = "validate"
  /\ arg \in Texts
  /\ ret = Answer(0, "", NoValue)

\* the code after the loop, applied to the candidate text
Validate ==
  /\ pc = "validate"
  /\ ret' = ConcludeText(rev, arg)
  /\ pc' = "done"
  /\ UNCHANGED <<rev, arg, IdleVars>>

SpecValidator == InitValidator /\ [][Validate]_vars

\* the substring of t from its first "{" to its last "}", or NoText
BraceSpan(t) ==
  LET opens == {j \in 1..Len(t) : t[j] = "{"}
      closes == {j \in 1..Len(t) : t[j] = "}"}
  IN IF opens = {} \/ closes = {} THEN NoText
     ELSE LET s == CHOOSE j \in opens : \A o \in opens : j <= o
              e == CHOOSE j \in closes : \A o \in closes : j >= o
          IN IF s < e THEN SubSeq(t, s, e) ELSE NoText

(***************************************************************************)
(* C11. Output validator: a candidate text that parses directly gives the  *)
(* persona of that parse; any other text whose span from the first '{' to  *)
(* the last '}' parses gives the persona parsed from that span.            *)
(***************************************************************************)
C11_ParseOrExtract ==
  (pc = "done" /\ arg # <<>>) =>
    /\ JsonParse(arg).ok => ret = Answer(200, "", JsonParse(arg))
    /\ (~JsonParse(arg).ok /\ BraceSpan(arg) # NoText /\ JsonParse(BraceSpan(arg)).ok) =>
         ret = Answer(200, "", JsonParse(BraceSpan(arg)))

(***************************************************************************)
(* C12. Output validator failure: a candidate text that neither parses     *)
(* directly nor has a parseable span from its first '{' to its last '}'    *)
(* fails the job with 'Model did not return JSON', never with a 200.       *)
(***************************************************************************)
C12_MalformedOutput ==
  (pc = "done" /\ arg # <<>> /\ ~JsonParse(arg).ok
     /\ (BraceSpan(arg) = NoText \/ ~JsonParse(BraceSpan(arg)).ok)) =>
    /\ ret.status = 500
    /\ ret.error = "Model did not return JSON"

(***************************************************************************)
(* dedupeByLink on lists of evidence items.  A link is a sequence of       *)
(* characters or null; an item is its link and its position in the list    *)
(* that first held it (items are distinct objects).                        *)
(***************************************************************************)
\* longest list of evidence items
MaxItems == 3

NullLink == <<"null">>

Links ==
  {NullLink, <<>>, <<" ">>, <<"a">>, <<" ", " ">>, <<" ", "a">>, <<"a", " ">>, <<"a", "a">>}

ItemLists ==
  UNION {{[j \in 1..n |-> [link |-> ls[j], n |-> j]] : ls \in [1..n -> Links]} : n \in 0..MaxItems}

\* String.prototype.trim on a sequence of characters
RECURSIVE trim(_)
trim(t) ==
  IF t = <<>> THEN t
  ELSE IF t[1] = " " THEN trim(Tail(t))
  ELSE IF t[Len(t)] = " " THEN trim(SubSeq(t, 1, Len(t) - 1))
  ELSE t

\* String(it?.link ?? "").trim()
KeyOf(it) == trim(IF it.link = NullLink THEN <<>> ELSE it.link)

\* the for loop over items from position j with the Map m, a sequence of
\* <<key, item>> entries in insertion order, then Array.from(m.values())
RECURSIVE DedupeFrom(_, _, _)
DedupeFrom(items, j, m) ==
  IF j > Len(items) THEN [e \in 1..Len(m) |-> m[e][2]]
  ELSE LET key == KeyOf(items[j]) IN
       IF key = <<>> THEN DedupeFrom(items, j + 1, m)
       ELSE IF \E e \in 1..Len(m) : m[e][1] = key THEN DedupeFrom(items, j + 1, m)
       ELSE DedupeFrom(items, j + 1, Append(m, <<key, items[j]>>))

dedupeByLinkFromSecond(items) == DedupeFrom(items, 2, <<>>)

dedupeByLinkKeepLast(items) ==
  LET rv(q) == [j \in 1..Len(q) |-> q[Len(q) - j + 1]]
  IN rv(DedupeFrom(rv(items), 1, <<>>))

dedupeByLink(items) == DedupeFrom(items, 1, <<>>)

InitDedupe ==
  /\ Idle
  /\ rev \in Revisions \ {"index1", "index2", "docker"}
  /\ pc = "dedupe"
  /\ arg \in ItemLists
  /\ ret = <<>>

\* seedWeb = dedupeByLink(seedWeb), applied to the list and again to its result
Dedupe ==
  /\ pc = "dedupe"
  /\ ret' = Append(ret, dedupeByLink(IF ret = <<>> THEN arg ELSE ret[Len(ret)]))
  /\ pc' = IF Len(ret) = 0 THEN "dedupe" ELSE "done"
  /\ UNCHANGED <<rev, arg, IdleVars>>

\* the same result lists pushed in another order: seedWeb.push(...r) per
\* query, then dedupeByLink over the reordered list
Reorder ==
  /\ pc = "done"
  /\ \E f \in {g \in [1..Len(arg) -> 1..Len(arg)] :
                \A a \in 1..Len(arg) : \A b \in 1..Len(arg) : g[a] = g[b] => a = b} :
       /\ seedWeb' = [j \in 1..Len(arg) |-> arg[f[j]]]
       /\ ret' = Append(ret, dedupeByLink(seedWeb'))
  /\ pc' = "reordered"
  /\ UNCHANGED <<rev, arg, req, messages, i, k, content, resp, invocations, ranTurn,
                 last, seedX, webQueries, net, attempts, client>>

SpecDedupe == InitDedupe /\ [][Dedupe \/ Reorder]_vars

(***************************************************************************)
(* C13. dedupeByLink is idempotent: applied to its own result it returns   *)
(* the same items in the same order.                                       *)
(***************************************************************************)
C13_Idempotent == Len(ret) = 2 => ret[2] = ret[1]

C13_Witness ==
  /\ Len(ret) = 2
  /\ Len(arg) = 3
  /\ Len(ret[1]) = 2
  /\ ret[2] = ret[1]
  /\ arg[1].link = arg[3].link

(***************************************************************************)
(* C14. dedupeByLink(L) holds only items of L, at most one item per        *)
(* distinct non-empty link, and the item kept for a link is the first item *)
(* of L that carries it.                                                   *)
(***************************************************************************)
C14_FirstPerLink ==
  Len(ret) >= 1 =>
    LET out == ret[1] IN
      /\ \A e \in 1..Len(out) : out[e].n \in 1..Len(arg) /\ arg[out[e].n] = out[e]
      /\ \A e \in 1..Len(out) : \A f \in 1..Len(out) :
           (out[e].link = out[f].link /\ out[e].link # <<>>) => e = f
      /\ \A e \in 1..Len(out) :
           \A j \in 1..Len(arg) : arg[j].link = out[e].link => out[e].n <= j

C14_Witness ==
  /\ Len(ret) >= 1
  /\ Len(arg) = 3
  /\ arg[2].link = <<"a">>
  /\ arg[3].link = <<"a">>
  /\ arg[1].link = <<" ">>
  /\ Len(ret[1]) = 1
  /\ ret[1][1].n = 2

(***************************************************************************)
(* The seeding step by step: the X timeline pre-fetch, the web queries one *)
(* by one, dedupeByLink, the queries added once a full name is found and   *)
(* the pre-browses (part_002), then the initial transcript.                *)
(***************************************************************************)
\* most seed web queries of one pass that the model runs
MaxQueries == 2

\* webQueries.length
WebQueryCount(r, q) ==
  CASE q.linkedin_url = "none" -> 0
    [] q.linkedin_url = "noslug" -> 1
    [] r = "index2" -> 1
    [] r = "part003" -> 7
    [] OTHER -> 14

\* additional_queries.length once fullName is found
AdditionalQueryCount(r) ==
  CASE r = "part002a" -> 10
    [] r = "part002b" -> 7
    [] OTHER -> 0

\* what one executeWebSearch call returns: nothing, or one result whose link
\* is null or a URL
WebResults == {<<>>} \cup {<<l>> : l \in {NullLink, <<"a">>, <<"a", "a">>}}

\* seedWeb.push(...r)
PushResults(web, r) ==
  web \o [j \in 1..Len(r) |->
            [link |-> r[j], n |-> j + (IF web = <<>> THEN 0 ELSE web[Len(web)].n)]]

\* JSON.stringify(value)
Stringify(v) == <<"json", v>>

SeedTranscriptAlways(web, x, browse) ==
  <<SeedMsg("seed_web_search", 0, Stringify(web)), SeedMsg("seed_x_search", 0, Stringify(x))>>
  \o [j \in 1..Len(browse) |-> SeedMsg("seed_browse", j - 1, Stringify(browse[j]))]

\* the conditional spreads of the initial messages array
SeedTranscript(web, x, browse) ==
  (IF Len(web) > 0 THEN <<SeedMsg("seed_web_search", 0, Stringify(web))>> ELSE <<>>)
  \o (IF Len(x) > 0 THEN <<SeedMsg("seed_x_search", 0, Stringify(x))>> ELSE <<>>)
  \o [j \in 1..Len(browse) |-> SeedMsg("seed_browse", j - 1, Stringify(browse[j]))]

\* xHandle, liSlug, then  if (xHandle) seedX = await executeXKeywordSearch(...)
\* and the list of web queries
SeedXFetch ==
  /\ pc = "seed"
  /\ \/ /\ HasXHandle(req)
        /\ Reject(Fail(500, "ExecutorError"), "seed_error")
     \/ /\ \E n \in 0..MaxSeedItems :
             /\ HasXHandle(req) \/ n = 0
             /\ seedX' = [j \in 1..n |-> "post"]
        /\ webQueries' = [j \in 1..Min(WebQueryCount(rev, req), MaxQueries) |-> "query"]
        /\ pc' = "seed_web"
        /\ last' = Event("seed_x", 0)
        /\ UNCHANGED <<rev, req, messages, i, k, content, resp, invocations, ranTurn,
                       arg, ret, seedWeb, net, attempts, client>>

\* for (const q of webQueries) { const r = await executeWebSearch(q, 10); seedWeb.push(...r) }
SeedWebQuery ==
  /\ pc \in {"seed_web", "seed_more"}
  /\ Len(webQueries) > 0
  /\ \/ Reject(Fail(500, "ExecutorError"), "seed_error")
     \/ /\ \E r \in WebResults : seedWeb' = PushResults(seedWeb, r)
        /\ webQueries' = Tail(webQueries)
        /\ last' = Event("seed_web", 0)
        /\ UNCHANGED <<rev, req, pc, messages, i, k, content, resp, invocations, ranTurn,
                       arg, ret, seedX, net, attempts, client>>

\* after the query loop: seedWeb = dedupeByLink(seedWeb) (not in src/index.ts),
\* then in part_002 the queries added when a full name is found
SeedDedupe ==
  /\ pc \in {"seed_web", "seed_more"}
  /\ Len(webQueries) = 0
  /\ seedWeb' = IF rev = "index2" THEN seedWeb ELSE dedupeByLink(seedWeb)
  /\ last' = Event("seed_dedupe", 0)
  /\ \/ /\ pc = "seed_web"
        /\ AdditionalQueryCount(rev) > 0
        /\ seedWeb' # <<>>
        /\ webQueries' = [j \in 1..Min(AdditionalQueryCount(rev), MaxQueries) |-> "query"]
        /\ pc' = "seed_more"
     \/ /\ webQueries' = webQueries
        /\ pc' = "seed_build"
  /\ UNCHANGED <<rev, req, messages, i, k, content, resp, invocations, ranTurn,
                 arg, ret, seedX, net, attempts, client>>

\* the guarded pre-browses (part_002:489-507) and the initial messages array
SeedBuild ==
  /\ pc = "seed_build"
  /\ \E nb \in PreBrowseCounts(req, rev, Len(seedWeb)) :
     \E browse \in [1..nb -> {"page_text", "browse_error"}] :
       /\ ret' = browse
       /\ messages' = <<SystemMsg, UserMsg>> \o SeedTranscript(seedWeb, seedX, browse)
  /\ pc' = "model"
  /\ last' = Event("seeded", 0)
  /\ UNCHANGED <<rev, req, i, k, content, resp, invocations, ranTurn,
                 arg, seedX, seedWeb, webQueries, net, attempts, client>>

NextSeed == Receive \/ SeedXFetch \/ SeedWebQuery \/ SeedDedupe \/ SeedBuild \/ InvokeModel

SpecSeed == Init /\ [][NextSeed]_vars

\* the tool messages that stand before the first assistant message
SeedPart == SubSeq(messages, 3, NextAssistantFrom(messages, 1) - 1)

C16_EvidenceFloor ==
  (invocations >= 1 /\ rev \notin {"index1", "docker"}
     /\ (req.x_url = "handle" \/ req.linkedin_url = "slug")) =>
    \E j \in 1..Len(SeedPart) :
      IF SeedPart[j].tool_call_id[1] = "seed_browse"
      THEN SeedPart[j].content[2] = "page_text"
      ELSE Len(SeedPart[j].content[2]) > 0

(***************************************************************************)
(* C16 amended. When the seeding completes without error, the transcript   *)
(* of the first model invocation holds, after the system and user          *)
(* messages, one seed_web_search message when the deduplicated web results *)
(* are not empty, then one seed_x_search message when the X posts are not  *)
(* empty, then one message per pre-browsed URL; a seed call that returns   *)
(* nothing adds no message, so the transcript may hold no evidence.        *)
(***************************************************************************)
C16_SeedMessagesIffEvidence ==
  (pc \in {"model", "tools", "done"} /\ Len(messages) >= 2
     /\ rev \notin {"index1", "docker"}) =>
    LET nweb == IF seedWeb # <<>> THEN 1 ELSE 0
        nx == IF seedX # <<>> THEN 1 ELSE 0
    IN /\ Len(SeedPart) = nweb + nx + Len(ret)
       /\ nweb = 1 =>
            /\ SeedPart[1].tool_call_id = <<"seed_web_search", 0>>
            /\ SeedPart[1].content[2] = seedWeb
       /\ nx = 1 =>
            /\ SeedPart[nweb + 1].tool_call_id = <<"seed_x_search", 0>>
            /\ SeedPart[nweb + 1].content[2] = seedX
       /\ \A j \in 1..Len(ret) :
            /\ SeedPart[nweb + nx + j].tool_call_id = <<"seed_browse", j - 1>>
            /\ SeedPart[nweb + nx + j].content[2] = ret[j]
       /\ \A j \in 1..Len(SeedPart) : SeedPart[j].role = "tool"

C16_Witness ==
  /\ rev = "part003"
  /\ req.x_url = "handle"
  /\ req.linkedin_url = "slug"
  /\ invocations = 1
  /\ seedX = <<>>
  /\ Len(seedWeb) = 1
  /\ Len(SeedPart) = 1
  /\ SeedPart[1].tool_call_id = <<"seed_web_search", 0>>

(***************************************************************************)
(* extractXUsername and extractLinkedInSlug.  The input is absent, a       *)
(* string new URL() rejects, or a URL given by its hostname and pathname,  *)
(* both sequences of characters.                                           *)
(***************************************************************************)
\* longest pathname
MaxPath == 6

Hostnames ==
  {<<"x", ".", "c", "o", "m">>,
   <<"w", "w", "w", ".", "x", ".", "c", "o", "m">>,
   <<"t", "w", "i", "t", "t", "e", "r", ".", "c", "o", "m">>,
   <<"n", "e", "t", "f", "l", "i", "x", ".", "c", "o", "m">>,
   <<"e", "x", "a", "m", "p", "l", "e", ".", "c", "o", "m">>,
   <<"l", "i", "n", "k", "e", "d", "i", "n", ".", "c", "o", "m">>}

PathChars == {"/", "@", "i", "n", "j"}

\* URL.pathname always begins with "/"
Pathnames ==
  UNION {{p \in [1..n -> PathChars] : p[1] = "/"} : n \in 1..MaxPath}

UrlInputs ==
  {[kind |-> "absent", hostname |-> <<>>, pathname |-> <<>>],
   [kind |-> "invalid", hostname |-> <<>>, pathname |-> <<>>]}
  \cup [kind : {"url"}, hostname : Hostnames, pathname : Pathnames]

\* String.prototype.includes
includes(t, sub) ==
  \E j \in 0..(Len(t) - Len(sub)) : SubSeq(t, j + 1, j + Len(sub)) = sub

\* pathname.split("/").filter(Boolean): cur is the segment being read
RECURSIVE SplitFrom(_, _, _)
SplitFrom(p, j, cur) ==
  IF j > Len(p) THEN (IF cur = <<>> THEN <<>> ELSE <<cur>>)
  ELSE IF p[j] = "/" THEN (IF cur = <<>> THEN <<>> ELSE <<cur>>) \o SplitFrom(p, j + 1, <<>>)
  ELSE SplitFrom(p, j + 1, Append(cur, p[j]))

\* String.prototype.replace(c, ""): the first occurrence only
replaceFirst(t, c) ==
  LET at == indexOf(t, c, 0)
  IN IF at = -1 THEN t ELSE SubSeq(t, 1, at) \o SubSeq(t, at + 2, Len(t))

extractXUsername(u) ==
  IF u.kind # "url" THEN NoText
  ELSE IF ~includes(u.hostname, <<"x", ".", "c", "o", "m">>) /\ ~includes(u.hostname, <<"t", "w", "i", "t", "t", "e", "r", ".", "c", "o", "m">>)
  THEN NoText
  ELSE LET parts == SplitFrom(u.pathname, 1, <<>>) IN
       IF Len(parts) = 0 THEN NoText
       ELSE IF replaceFirst(parts[1], "@") = <<>> THEN NoText
       ELSE replaceFirst(parts[1], "@")

extractLinkedInSlugLastIn(u) ==
  IF u.kind # "url" THEN NoText
  ELSE LET parts == SplitFrom(u.pathname, 1, <<>>)
           ins == {j \in 1..Len(parts) : parts[j] = <<"i", "n">>}
       IN IF ins = {} THEN NoText
          ELSE LET inIdx == CHOOSE j \in ins : \A o \in ins : j >= o
               IN IF inIdx + 1 <= Len(parts) THEN parts[inIdx + 1] ELSE NoText

\* parts.findIndex((p) => p === "in"); parts[inIdx + 1] or null
extractLinkedInSlug(u) ==
  IF u.kind # "url" THEN NoText
  ELSE LET parts == SplitFrom(u.pathname, 1, <<>>)
           ins == {j \in 1..Len(parts) : parts[j] = <<"i", "n">>}
       IN IF ins = {} THEN NoText
          ELSE LET inIdx == CHOOSE j \in ins : \A o \in ins : j <= o
               IN IF inIdx + 1 <= Len(parts) THEN parts[inIdx + 1] ELSE NoText

InitUrl ==
  /\ Idle
  /\ rev = "part003"
  /\ pc = "derive_x"
  /\ arg \in UrlInputs
  /\ ret = <<>>

\* const xHandle = extractXUsername(xUrl)
DeriveXHandle ==
  /\ pc = "derive_x"
  /\ ret' = <<extractXUsername(arg)>>
  /\ pc' = "derive_li"
  /\ UNCHANGED <<rev, arg, IdleVars>>

\* const liSlug = extractLinkedInSlug(linkedinUrl)
DeriveLiSlug ==
  /\ pc = "derive_li"
  /\ ret' = Append(ret, extractLinkedInSlug(arg))
  /\ pc' = "done"
  /\ UNCHANGED <<rev, arg, IdleVars>>

SpecUrl == InitUrl /\ [][DeriveXHandle \/ DeriveLiSlug]_vars

\* the maximal runs of characters other than "/" in p, as <<first, last>>
RunsOf(p) ==
  {r \in (1..Len(p)) \X (1..Len(p)) :
     /\ r[1] <= r[2]
     /\ \A j \in r[1]..r[2] : p[j] # "/"
     /\ r[1] = 1 \/ p[r[1] - 1] = "/"
     /\ r[2] = Len(p) \/ p[r[2] + 1] = "/"}

(***************************************************************************)
(* C17. extractXUsername returns the first path segment without its '@'    *)
(* for a URL on an X or Twitter host, and null for a URL on any other      *)
(* host, for an unparseable URL and for a URL with an empty path.          *)
(***************************************************************************)
C17_XUsername ==
  Len(ret) >= 1 =>
    LET runs == RunsOf(arg.pathname)
        onX == arg.hostname \in {<<"x", ".", "c", "o", "m">>, <<"w", "w", "w", ".", "x", ".", "c", "o", "m">>, <<"t", "w", "i", "t", "t", "e", "r", ".", "c", "o", "m">>}
    IN /\ (arg.kind # "url" \/ ~onX \/ runs = {}) => ret[1] = NoText
       /\ (arg.kind = "url" /\ onX /\ runs # {}) =>
            LET first == CHOOSE r \in runs : \A o \in runs : r[1] <= o[1]
                seg == SubSeq(arg.pathname, first[1], first[2])
            IN Cardinality({j \in 1..Len(seg) : seg[j] = "@"}) <= 1 =>
                 \/ ret[1] = SelectSeq(seg, LAMBDA c : c # "@")
                 \/ seg = <<"@">> /\ ret[1] = NoText

(***************************************************************************)
(* C18. extractLinkedInSlug returns the path segment that follows the      *)
(* first 'in' segment of the URL, and null when the URL is absent or       *)
(* malformed, has no 'in' segment, or has no segment after it.             *)
(***************************************************************************)
C18_LinkedInSlug ==
  Len(ret) = 2 =>
    LET runs == RunsOf(arg.pathname)
        ins == {r \in runs : SubSeq(arg.pathname, r[1], r[2]) = <<"i", "n">>}
    IN IF arg.kind # "url" \/ ins = {} THEN ret[2] = NoText
       ELSE LET firstIn == CHOOSE r \in ins : \A o \in ins : r[1] <= o[1]
                after == {r \in runs : r[1] > firstIn[2]}
            IN IF after = {} THEN ret[2] = NoText
               ELSE LET nxt == CHOOSE r \in after : \A o \in after : r[1] <= o[1]
                    IN ret[2] = SubSeq(arg.pathname, nxt[1], nxt[2])

C18_Witness ==
  /\ Len(ret) = 2
  /\ arg.kind = "url"
  /\ arg.pathname = <<"/", "i", "n", "/", "j", "/">>
  /\ ret[2] = <<"j">>

(***************************************************************************)
(* One outbound call: the fetch, the upstream's answer or its silence, the *)
(* deadline of fetchWithTimeout where the call site uses it, and the       *)
(* retry of executeXKeywordSearch on 429 in the first revision.            *)
(***************************************************************************)
\* most fetches of one call that the upstream answers with 429
MaxAttempts == 3

\* the fetch call sites of a revision
CallKinds(r) ==
  {"web_search", "social", "model"}
    \cup (IF r \in {"part002a", "part002b"} THEN {"head", "pdf", "page"} ELSE {})

\* timeoutMs of the call site, 0 where the site calls fetch directly
DeadlineMs(r, kind) ==
  CASE kind = "head" -> 10000
    [] kind \in {"pdf", "page"} -> 20000
    [] OTHER -> 0

\* if (res.status === 429) { await setTimeout 60000; return executeXKeywordSearch(...) }
RetriesOn429(r, kind) == r = "index1" /\ kind = "social"

\* what the upstream does with a fetch: a status, or no answer at all
Upstream == {"silent", "200", "429", "500"}

\* the argument the executor was given for its required parameter (query or
\* url): a string, undefined, or a value of another type
ArgShapes == {"conforming", "missing", "wrong_type"}

\* the call sites whose executor reads a credential of its own before the fetch
NeedsKey(r, kind) ==
  \/ kind \in {"social", "pdf"}
  \/ kind = "web_search" /\ r \in {"part002a", "part002b", "part003"}

\* the call sites reached only through a method call on the argument:
\* url.toLowerCase() for browse_page, query.match(...) for the timeline search
DereferencesArg(r, kind) ==
  \/ kind \in {"head", "pdf", "page"}
  \/ kind = "social" /\ r \notin {"index1", "docker"}

\* one call site with the argument and the credential its executor finds; the
\* model call takes no tool argument and its key was checked by the handler
ExecutorInputs(r) ==
  {a \in [kind : CallKinds(r), shape : ArgShapes, key : BOOLEAN] :
     /\ a.kind = "model" => a.shape = "conforming"
     /\ ~NeedsKey(r, a.kind) => a.key}

InitOutbound ==
  /\ Idle
  /\ rev \in Revisions
  /\ arg \in ExecutorInputs(rev)
  /\ pc = "enter"
  /\ ret = "none"

OutboundFixed ==
  <<rev, arg, req, messages, i, k, content, resp, invocations, ranTurn, last,
    seedX, seedWeb, webQueries, client>>

\* the executor up to its first fetch: url.toLowerCase() comes before the
\* PDF_WORKER_URL check, the X_BEARER_TOKEN check before query.match(...)
EnterExecutor ==
  /\ pc = "enter"
  /\ LET badArg == DereferencesArg(rev, arg.kind) /\ arg.shape # "conforming"
         noKey == NeedsKey(rev, arg.kind) /\ ~arg.key
     IN IF badArg /\ (arg.kind # "social" \/ ~noKey)
        THEN pc' = "done" /\ ret' = "type_error"
        ELSE IF noKey THEN pc' = "done" /\ ret' = "missing_key"
        ELSE pc' = "call" /\ ret' = ret
  /\ UNCHANGED <<net, attempts, OutboundFixed>>

\* the client goes away: req.signal aborts, and nothing in the handler or in
\* the executors reads it
Cancel ==
  /\ client = "connected"
  /\ pc # "done"
  /\ client' = "gone"
  /\ UNCHANGED <<rev, req, pc, messages, i, k, content, resp, invocations, ranTurn,
                 last, arg, ret, seedX, seedWeb, webQueries, net, attempts>>

\* await fetch(...): of the fetches of one call at most MaxAttempts are
\* answered 429
SendCall ==
  /\ pc = "call"
  /\ attempts' = attempts + 1
  /\ net' \in (IF attempts + 1 >= MaxAttempts THEN Upstream \ {"429"} ELSE Upstream)
  /\ pc' = "await"
  /\ UNCHANGED <<ret, OutboundFixed>>

\* the response arrives: res.ok, the 429 branch, or throw new Error(...)
ReceiveAnswer ==
  /\ pc = "await"
  /\ net # "silent"
  /\ IF net = "200" THEN pc' = "done" /\ ret' = "ok"
     ELSE IF net = "429" /\ RetriesOn429(rev, arg.kind) THEN pc' = "backoff" /\ ret' = ret
     ELSE pc' = "done" /\ ret' = "upstream_error"
  /\ UNCHANGED <<net, attempts, OutboundFixed>>

\* the 60000 ms timer ends and the executor calls itself
BackoffElapsed ==
  /\ pc = "backoff"
  /\ pc' = "call"
  /\ UNCHANGED <<ret, net, attempts, OutboundFixed>>

\* setTimeout(() => controller.abort(), timeoutMs): the fetch rejects
DeadlineFires ==
  /\ pc = "await"
  /\ DeadlineMs(rev, arg.kind) > 0
  /\ pc' = "done"
  /\ ret' = "timeout"
  /\ UNCHANGED <<net, attempts, OutboundFixed>>

NextOutbound ==
  EnterExecutor \/ SendCall \/ ReceiveAnswer \/ BackoffElapsed \/ DeadlineFires \/ Cancel

SpecOutbound == InitOutbound /\ [][NextOutbound]_vars

\* the event loop runs every callback that is ready
SpecOutboundFair == SpecOutbound /\ WF_vars(NextOutbound)

(***************************************************************************)
(* C19. x_keyword_search rate limiting: a 429 from the social API is       *)
(* retried exactly once; a second 429 fails the executor, so one executor  *)
(* invocation makes at most two fetches, and fails on 429 only after two.  *)
(***************************************************************************)
C19_RetryOnce ==
  arg.kind = "social" =>
    /\ attempts <= 2
    /\ (pc = "done" /\ net = "429") => (attempts = 2 /\ ret = "upstream_error")
    /\ pc = "backoff" => attempts = 1

(***************************************************************************)
(* C20. Every outbound call is bounded by a deadline: whatever the         *)
(* upstream does, the call eventually ends, by an answer or by its         *)
(* deadline, so the request that awaits it eventually responds.            *)
(***************************************************************************)
C20_EveryCallEnds == <>(pc = "done")

(***************************************************************************)
(* C21. A tool call that times out fails alone: the request goes on, the   *)
(* timed-out call leaves its own tool message, and when the request ends   *)
(* every call of that turn has its tool message in the transcript.         *)
(***************************************************************************)
TimeoutEvents == {"exec_timeout", "timeout_caught"}

C21_TimeoutFailsAlone ==
  last.kind \in TimeoutEvents =>
    /\ messages[Len(messages)].content = "timeout_error"
    /\ pc = "done" =>
         Cardinality(TurnRange(LastTurn)) = Len(messages[LastTurn].tool_calls)

\* part002b: the first call of a two-call turn timed out and the second ran
C21_SiblingRan ==
  /\ rev = "part002b"
  /\ \E a \in Assistants : \E j \in TurnRange(a) :
       /\ messages[j].content = "timeout_error"
       /\ j + 1 \in TurnRange(a)
       /\ messages[j + 1].content = "web_results"

(***************************************************************************)
(* The checks at the head of the handler.                                  *)
(***************************************************************************)
\* nothing was parsed past the check that answered, no credential was read
\* and nothing was sent: the handler returned straight from Receive
RejectedAtOnce ==
  /\ last = Event("reject", 0)
  /\ invocations = 0
  /\ messages = <<>>

BothAbsent(q) == Trimmed(q.linkedin_url) = "none" /\ Trimmed(q.x_url) = "none"

(***************************************************************************)
(* C22. Every request whose method is not POST is answered 405 with a JSON *)
(* body {error}, whatever its body, before anything else is done.          *)
(***************************************************************************)
C22_NonPost405 ==
  (pc = "done" /\ req.method # "POST") =>
    /\ resp.status = 405
    /\ resp.format = "json"
    /\ resp.error # ""
    /\ RejectedAtOnce

(***************************************************************************)
(* C23. Every POST whose body does not parse as JSON is answered 400 with  *)
(* the error "Body was not valid JSON", never 500, and nothing is sent.    *)
(***************************************************************************)
C23_BadBody400 ==
  (pc = "done" /\ req.method = "POST" /\ req.body = "unparseable") =>
    /\ resp = Fail(400, "Body was not valid JSON")
    /\ RejectedAtOnce

(***************************************************************************)
(* C24. Every POST whose body parses and in which linkedin_url and x_url   *)
(* are both absent (missing, empty or whitespace only) is answered 400     *)
(* with the error naming the requirement, with or without credentials.     *)
(***************************************************************************)
C24_NoUrl400 ==
  (pc = "done" /\ req.method = "POST" /\ req.body \in {"json", "null"}
     /\ BothAbsent(req)) =>
    /\ resp = Fail(400, "Provide linkedin_url and/or x_url")
    /\ RejectedAtOnce

(***************************************************************************)
(* C25. The LLM credential is checked eagerly: a valid request without it  *)
(* is answered 500 before any seeding call, tool call or model invocation. *)
(* The failure of any other service (a missing credential among its        *)
(* causes) shows only in the step that invokes the executor needing it.    *)
(***************************************************************************)
ValidRequest(q) == q.method = "POST" /\ q.body = "json" /\ ~BothAbsent(q)

C25_KeyCheckedEagerly ==
  /\ (ValidRequest(req) /\ ~req.xaiKey) =>
       /\ invocations = 0
       /\ messages = <<>>
       /\ ranTurn = <<>>
       /\ pc \in {"start", "done"}
       /\ pc = "done" => resp = Fail(500, "Missing XAI_API_KEY") /\ RejectedAtOnce
  /\ last.kind = "seed_error" =>
       HasSeeding(rev) /\ (HasXHandle(req) \/ req.linkedin_url # "none")
  /\ last.kind \in {"exec_error", "exec_timeout"} =>
       /\ Len(ranTurn) >= 1
       /\ ranTurn[Len(ranTurn)] = last.idx
       /\ messages[LastTurn].tool_calls[last.idx].name \in KnownTools(rev)

\* a seeding revision turned down a request with an X handle for the key alone
C25_Witness ==
  /\ pc = "done"
  /\ HasSeeding(rev)
  /\ ValidRequest(req)
  /\ HasXHandle(req)
  /\ ~req.xaiKey
  /\ resp = Fail(500, "Missing XAI_API_KEY")

(***************************************************************************)
(* C26. A request with an X URL alone, every credential present, seeding   *)
(* done, and a first model response that is final and parses as JSON: one  *)
(* model invocation, and a 200 whose persona is the parsed content and     *)
(* whose debug.seeded_x_handle is the handle extracted from the URL.       *)
(***************************************************************************)
FirstAssistant == NextAssistantFrom(messages, 1)

XOnlyFirstFinal ==
  /\ HasSeeding(rev)
  /\ ValidRequest(req)
  /\ req.xaiKey
  /\ req.linkedin_url = "none"
  /\ FirstAssistant <= Len(messages)
  /\ ~messages[FirstAssistant].has_tool_calls
  /\ messages[FirstAssistant].content = "json"

TurnAnswered(a) ==
  /\ Cardinality(TurnRange(a)) = Len(messages[a].tool_calls)
  /\ \A n \in 1..Len(messages[a].tool_calls) :
       /\ messages[a + n].role = "tool"
       /\ messages[a + n].tool_call_id = messages[a].tool_calls[n].id

C27_StrictSequencing ==
  [][/\ invocations' = invocations + 1 =>
          /\ pc = "model"
          /\ \A a \in Assistants : TurnAnswered(a)
     /\ Len(messages') >= Len(messages)
     /\ \A j \in 1..Len(messages) : messages'[j] = messages[j]]_vars

\* the second invocation began after both calls of the first turn were answered
C27_Witness ==
  /\ invocations = 2
  /\ Len(messages[FirstAssistant].tool_calls) = 2
  /\ TurnAnswered(FirstAssistant)
  /\ messages[FirstAssistant].tool_calls[1].name = "x_keyword_search"
  /\ messages[FirstAssistant + 1].content = "x_posts"

(***************************************************************************)
(* C28. The persona of a 200 is built once, from the content of the last   *)
(* assistant message, and that message requested no tool calls.            *)
(***************************************************************************)
FromLastMessage(c) ==
  /\ LastTurn = Len(messages)
  /\ ~messages[LastTurn].has_tool_calls
  /\ c = messages[LastTurn].content

C28_PersonaFromLastMessage ==
  /\ [](/\ content # "" => FromLastMessage(content)
        /\ resp.status = 200 => pc = "done" /\ FromLastMessage(resp.persona))
  /\ [][resp # NoResp => resp' = resp]_vars

\* a 200 after a turn of tool calls: the persona is the later, final content
C28_Witness ==
  /\ resp.status = 200
  /\ invocations = 2
  /\ messages[FirstAssistant].has_tool_calls
  /\ messages[FirstAssistant].content = "json"
  /\ resp.persona = "json"

(***************************************************************************)
(* C29. A tool call whose argument does not conform to the declared schema *)
(* (the required query or url missing, or of the wrong type) is a terminal *)
(* error for that call: its executor ends without a single fetch.          *)
(***************************************************************************)
C29_SchemaConformance ==
  arg.shape # "conforming" =>
    /\ attempts = 0
    /\ pc \in {"enter", "done"}
    /\ pc = "done" => ret \in {"type_error", "missing_key"}

(***************************************************************************)
(* C30. Once the client has gone, no further outbound call is started and  *)
(* a call in flight is aborted: it never ends with the upstream's answer.  *)
(***************************************************************************)
C30_CancellationStops ==
  [][client = "gone" =>
        /\ attempts' = attempts
        /\ ret' # ret => ret' \notin {"ok", "upstream_error"}]_vars

(***************************************************************************)
(* executeXKeywordSearch: the routing between the timeline and the recent  *)
(* search, the requests it sends and the posts it maps.  ret is the list   *)
(* of the requests sent, net what is awaited and then the tweets of the    *)
(* answer, seedX the posts returned.                                       *)
(***************************************************************************)
\* most tweets in one answer of the X API
MaxTweets == 2

\* query: with a from:<handle> clause, with from: followed by no handle
\* character, or without from:
QueryKinds == {"from_handle", "from_nothing", "keywords"}

\* query.match(/from:([A-Za-z0-9_]{1,15})/) captures a username
MatchesFrom(q) == q = "from_handle"

\* the revision routes a matched username to the timeline
HasTimelineRoute(r) == r \notin {"index1", "docker"}

\* a tweet of the answer: its id and its conversation_id, 0 for a tweet
\* that carries none
Tweets == [id : 1..MaxTweets, conversation_id : 0..MaxTweets]

XRequest(endpoint, sorted) == [endpoint |-> endpoint, sort_order |-> sorted]

\* if (mode === "Latest") params.set("sort_order", "recency")
SearchRequest(mode) ==
  XRequest("search/recent", IF mode = "Latest" THEN "recency" ELSE "unset")

\* the timeline parameters carry no sort_order
TimelineRequest == XRequest("users/:id/tweets", "unset")

ResolveRequest == XRequest("users/by/username", "unset")

IsReplyAlways(r, t) == t.conversation_id # 0

\* reply: tweet.conversation_id !== tweet.id, from the second revision on
\* behind  tweet.conversation_id &&
IsReply(r, t) ==
  IF HasTimelineRoute(r)
  THEN t.conversation_id # 0 /\ t.conversation_id # t.id
  ELSE t.conversation_id # t.id

mapTweetsToPosts(r, tweets) ==
  [j \in 1..Len(tweets) |-> [id |-> tweets[j].id, reply |-> IsReply(r, tweets[j])]]

InitSocial ==
  /\ Idle
  /\ rev \in Revisions
  /\ arg \in [query : QueryKinds, mode : {"Top", "Latest"}]
  /\ pc = "x_enter"
  /\ ret = <<>>

\* what one executor on its own leaves alone
ExecutorFixed ==
  <<rev, arg, req, messages, i, k, content, resp, invocations, ranTurn, last,
    seedWeb, webQueries, client>>

\* if (username) { resolve, then the timeline } else the recent search
RoutesToTimeline(r, a) == HasTimelineRoute(r) /\ MatchesFrom(a.query)

XRoute ==
  /\ pc = "x_enter"
  /\ IF RoutesToTimeline(rev, arg)
     THEN ret' = <<ResolveRequest>> /\ net' = "resolve"
     ELSE ret' = <<SearchRequest(arg.mode)>> /\ net' = "tweets"
  /\ pc' = "x_await"
  /\ UNCHANGED <<seedX, attempts, ExecutorFixed>>

\* resolveXUserByUsername: a non-2xx answer or an answer without data.id
\* throws; with the id the timeline is requested
XResolved ==
  /\ pc = "x_await"
  /\ net = "resolve"
  /\ \E answer \in {"id", "no_id", "error"} :
       IF answer = "id"
       THEN /\ ret' = Append(ret, TimelineRequest)
            /\ UNCHANGED <<pc, seedX>>
            /\ net' = "tweets"
       ELSE /\ pc' = "failed"
            /\ net' = "unresolved"
            /\ UNCHANGED <<ret, seedX>>
  /\ UNCHANGED <<attempts, ExecutorFixed>>

\* the answer to the timeline or to the search: an error throws, a 429 is
\* retried where the revision does so, a success is mapped to posts
XAnswered ==
  /\ pc = "x_await"
  /\ net = "tweets"
  /\ \/ /\ pc' = "failed"
        /\ net' = "error"
        /\ UNCHANGED <<ret, seedX>>
     \/ /\ RetriesOn429(rev, "social")
        /\ Len(ret) < MaxAttempts
        /\ ret' = Append(ret, ret[Len(ret)])
        /\ UNCHANGED <<pc, net, seedX>>
     \/ \E tweets \in UNION {[1..n -> Tweets] : n \in 0..MaxTweets} :
          /\ seedX' = mapTweetsToPosts(rev, tweets)
          /\ pc' = "done"
          /\ net' = tweets
          /\ ret' = ret
  /\ UNCHANGED <<attempts, ExecutorFixed>>

NextSocial == XRoute \/ XResolved \/ XAnswered

SpecSocial == InitSocial /\ [][NextSocial]_vars

(***************************************************************************)
(* C31. x_keyword_search routing: a query with a from:<handle> clause      *)
(* resolves the handle first and requests the timeline only after the      *)
(* resolution succeeded, never with a sort order; any other query goes to  *)
(* the recent search, sorted by recency exactly when mode is Latest.       *)
(***************************************************************************)
C31_Routing ==
  pc # "x_enter" =>
    IF MatchesFrom(arg.query)
    THEN /\ ret[1] = ResolveRequest
         /\ \A j \in 2..Len(ret) : ret[j] = TimelineRequest
         /\ Len(ret) <= 2
         /\ (pc = "failed" /\ net = "unresolved") => Len(ret) = 1
         /\ pc = "done" => Len(ret) = 2
    ELSE \A j \in 1..Len(ret) :
           /\ ret[j].endpoint = "search/recent"
           /\ ret[j].sort_order = "recency" <=> arg.mode = "Latest"

(***************************************************************************)
(* C32. For every post returned by x_keyword_search the reply flag is true *)
(* exactly when the conversation identifier of its tweet differs from the  *)
(* identifier of that tweet.                                               *)
(***************************************************************************)
C32_ReplyFlag ==
  pc = "done" =>
    /\ Len(seedX) = Len(net)
    /\ \A j \in 1..Len(net) :
         /\ seedX[j].id = net[j].id
         /\ net[j].conversation_id # 0 =>
              (seedX[j].reply <=> net[j].conversation_id # net[j].id)

\* one answer with a reply and a conversation root in it
C32_Witness ==
  /\ pc = "done"
  /\ Len(seedX) = 2
  /\ net[1].conversation_id = 2 /\ net[1].id = 1 /\ seedX[1].reply
  /\ net[2].conversation_id = 2 /\ net[2].id = 2 /\ ~seedX[2].reply

(***************************************************************************)
(* executeBrowsePage: the PDF detection, the retry loop of the HTML path,  *)
(* the PDF worker call, and the text returned.  net is the list of the     *)
(* fetches made and the delays waited, ret the outcome, attempts the local *)
(* of that name.                                                           *)
(***************************************************************************)
\* .slice(0, 80000)
TextBudget == 80000

\* lengths of a text, around the budget
Lengths == {0, 1, TextBudget - 1, TextBudget, TextBudget + 1, 2 * TextBudget}

\* the url: lower.endsWith(".pdf"), lower.includes("linkedin.com")
PageUrls == [pdfExt : BOOLEAN, linkedin : BOOLEAN]

\* a fetched document: the characters the cleaning removes or collapses
\* and the characters of text it leaves
Pages == [markup : {0, 1, TextBudget}, text : Lengths]

\* const maxRetries = 3, or one plain fetch
MaxBrowseTries(r) == IF r = "part002a" THEN 3 ELSE 1

\* what the executor did: the HEAD probe ("head"), the PDF worker call
\* ("pdf_worker"), the page fetch by fetchWithTimeout or by puppeteer's
\* page.goto ("fetch"), or a delay of ms milliseconds ("wait")
Ev(kind, ms) == [kind |-> kind, ms |-> ms]

\* the replace chain and trim: what is left of the page is its text
Cleaned(page) == page.text

\* raw.length
RawLength(page) == page.markup + page.text

Failed(why) == [ok |-> FALSE, length |-> 0, why |-> why]
PageText(n) == [ok |-> TRUE, length |-> n, why |-> ""]

InitBrowse ==
  /\ req = [method |-> "POST", body |-> "json", linkedin_url |-> "none",
            x_url |-> "none", xaiKey |-> TRUE]
  /\ messages = <<>>
  /\ i = 0
  /\ k = 0
  /\ content = ""
  /\ resp = NoResp
  /\ invocations = 0
  /\ ranTurn = <<>>
  /\ last = Event("init", 0)
  /\ seedX = <<>>
  /\ seedWeb = <<>>
  /\ webQueries = <<>>
  /\ client = "connected"
  /\ attempts = 0
  /\ net = <<>>
  /\ rev \in {"part002a", "part002b"}
  /\ arg \in PageUrls
  /\ pc = "b_detect"
  /\ ret = Failed("running")

\* isPdf = looksLikePdfByExt || await isPdfByHead(url): the HEAD probe runs
\* only without the extension, and its failure counts as "not a PDF"
BrowseDetect ==
  /\ pc = "b_detect"
  /\ IF arg.pdfExt
     THEN net' = net /\ pc' = "b_pdf"
     ELSE net' = Append(net, Ev("head", 0)) /\ pc' \in {"b_pdf", "b_loop"}
  /\ UNCHANGED <<ret, attempts, seedX, ExecutorFixed>>

\* one iteration of  while (attempts < maxRetries)  (part002a), or the one
\* fetch of the later revision, where a non-2xx answer throws as well
BrowseAttempt ==
  /\ pc = "b_loop"
  /\ net' = Append(net, Ev("fetch", 0))
  /\ \/ \* the fetch rejects (network error or the deadline): catch (e)
        /\ attempts' = attempts + 1
        /\ IF attempts + 1 >= MaxBrowseTries(rev)
           THEN pc' = "done" /\ ret' = Failed("browse_failed")
           ELSE pc' = "b_loop" /\ ret' = ret
     \/ \E page \in Pages :
          IF rev = "part002a" /\ RawLength(page) = 0
          THEN /\ attempts' = attempts + 1
               /\ pc' = "b_wait"
               /\ ret' = ret
          ELSE /\ attempts' = attempts
               /\ pc' = "done"
               /\ ret' = PageText(Min(Cleaned(page), TextBudget))
  /\ UNCHANGED <<seedX, ExecutorFixed>>

\* await setTimeout(2000 * attempts), then the loop test; past the last
\* attempt the empty raw is cleaned and returned
BrowseWait ==
  /\ pc = "b_wait"
  /\ net' = Append(net, Ev("wait", 2000 * attempts))
  /\ IF attempts < MaxBrowseTries(rev)
     THEN pc' = "b_loop" /\ ret' = ret
     ELSE pc' = "done" /\ ret' = PageText(0)
  /\ UNCHANGED <<attempts, seedX, ExecutorFixed>>

\* return data.text ?? ""
PdfText(n) == PageText(n)

\* the PDF worker: a timeout, a non-2xx answer or a non-JSON body throws
BrowsePdf ==
  /\ pc = "b_pdf"
  /\ net' = Append(net, Ev("pdf_worker", 0))
  /\ pc' = "done"
  /\ \/ ret' = Failed("pdf_worker")
     \/ \E n \in Lengths : ret' = PdfText(n)
  /\ UNCHANGED <<attempts, seedX, ExecutorFixed>>

NextBrowse == BrowseDetect \/ BrowseAttempt \/ BrowseWait \/ BrowsePdf

SpecBrowse == InitBrowse /\ [][NextBrowse]_vars

\* positions of the fetches in the trace
FetchesAt == {j \in 1..Len(net) : net[j].kind = "fetch"}
WaitsAt == {j \in 1..Len(net) : net[j].kind = "wait"}

(***************************************************************************)
(* C33. The HTML fetch of browse_page is retried a bounded number of       *)
(* times with increasing backoff: at most 3 fetches per invocation, a      *)
(* delay before every retry, each delay strictly longer than the one       *)
(* before, and an invocation that has ended has content or an error.       *)
(***************************************************************************)
C33_BoundedRetries ==
  /\ Cardinality(FetchesAt) <= 3
  /\ \A a \in FetchesAt : \A b \in FetchesAt :
       a < b => \E w \in WaitsAt : a < w /\ w < b /\ net[w].ms > 0
  /\ \A a \in WaitsAt : \A b \in WaitsAt : a < b => net[a].ms < net[b].ms
  /\ pc = "done" => ret.ok \/ ret.why # "running"

(***************************************************************************)
(* C34. Every page text browse_page returns, for HTML and for PDF alike,   *)
(* is at most 80000 characters long.                                       *)
(***************************************************************************)
C34_TextBudget ==
  (pc = "done" /\ ret.ok) => ret.length <= TextBudget

(***************************************************************************)
(* executeWebSearch: the number of results asked of the provider (net)     *)
(* and the number returned to the caller (ret).                            *)
(***************************************************************************)
\* num_results, and the number of results in the provider's answer
Counts == {0, 1, 10, 20, 21, 50}

\* the revision caps the request: num: Math.min(num_results, 20)
CapsRequest(r) == r \in {"part002a", "part002b", "part003"}

\* &num=${num_results}  or  num: Math.min(num_results, 20)
RequestedNum(r, n) == IF CapsRequest(r) THEN Min(n, 20) ELSE n

\* results.slice(0, num_results)  in the first revision,
\* .slice(0, Math.min(num_results, 20))  from the second on
ReturnedCount(r, n, found) ==
  IF r \in {"index1", "docker"} THEN Min(found, n) ELSE Min(found, Min(n, 20))

InitSearch ==
  /\ Idle
  /\ rev \in Revisions
  /\ arg \in Counts
  /\ pc = "search"
  /\ ret = 0

\* one invocation: the request, then a throw on a non-2xx or unparseable
\* answer, or the slice of what the provider returned
WebSearch ==
  /\ pc = "search"
  /\ net' = RequestedNum(rev, arg)
  /\ \/ pc' = "failed" /\ ret' = ret
     \/ \E found \in Counts :
          /\ pc' = "done"
          /\ ret' = ReturnedCount(rev, arg, found)
  /\ UNCHANGED <<seedX, attempts, ExecutorFixed>>

SpecSearch == InitSearch /\ [][WebSearch]_vars

(***************************************************************************)
(* C35. web_search returns at most min(numResults, 20) results and asks    *)
(* the provider for at most 20.                                            *)
(***************************************************************************)
C35_ResultCap ==
  pc \in {"done", "failed"} =>
    /\ net <= 20
    /\ ret <= Min(arg, 20)

(***************************************************************************)
(* C36. The seeder merge is order-independent: the same results pushed in  *)
(* any other order leave the same set of links in the deduplicated         *)
(* evidence.                                                               *)
(***************************************************************************)
LinksOf(items) == {items[e].link : e \in 1..Len(items)}

KeysOf(items) == {KeyOf(items[e]) : e \in 1..Len(items)}

C36_OrderIndependent ==
  pc = "reordered" => LinksOf(ret[3]) = LinksOf(ret[1])

\* C36 as the code has it: a link is identified by its trimmed text; in any
\* other order the evidence holds the same trimmed links, one item for each
C36_SameTrimmedLinks ==
  pc = "reordered" =>
    /\ KeysOf(ret[3]) = KeysOf(ret[1])
    /\ Len(ret[3]) = Len(ret[1])
    /\ Cardinality(KeysOf(ret[3])) = Len(ret[3])

\* another order, a duplicate discarded, and the links kept differ in their
\* surrounding blanks only
C36_Witness ==
  /\ pc = "reordered"
  /\ seedWeb # arg
  /\ Len(ret[3]) < Len(arg)
  /\ LinksOf(ret[3]) # LinksOf(ret[1])

(***************************************************************************)
(* C37. A terminal answer (no tool calls, content not empty) is taken as   *)
(* the answer on whichever budgeted turn it comes, the last included; the  *)
(* loop ends by exhaustion of its budget only when every one of the        *)
(* responses of the budgeted turns requested tool calls.                   *)
(***************************************************************************)
\* the loop test failed: i ran past the last budgeted turn
BudgetExhausted == pc = "done" /\ i = MaxTurns(rev)

C37_LastTurnAnswer ==
  /\ (pc = "done" /\ last.kind = "final" /\ content # "") =>
       /\ ~BudgetExhausted
       /\ resp = Conclude(rev, req, messages[Len(messages)].content)
       /\ resp.error # "No final content"
  /\ BudgetExhausted =>
       /\ invocations = MaxTurns(rev)
       /\ AlwaysCalls

====
